---- MODULE Spec2Model ----
(***************************************************************************)
(* A model of the two computational API handlers of power-market-system:   *)
(*   pages/api/predict.js   (96-slot price forecast)                       *)
(*   the optimize handler   (second handler of pages/api/available-dates.js)*)
(*                                                                         *)
(* JavaScript numbers are modelled as exact rationals n/d (d > 0, lowest   *)
(* terms) plus NaN; IEEE-754 rounding of the intermediate products is not  *)
(* modelled.  The other JavaScript values a JSON body can carry (null, a   *)
(* non-numeric string, an object) are modelled by kind, with the coercions *)
(* the operators *, -, +, /, || and Math.round apply to them.              *)
(***************************************************************************)
EXTENDS Integers, Sequences, FiniteSets, TLC

VARIABLES op, req, env, res, calls, ui, net

vars == <<op, req, env, res, calls, ui, net>>

\* the variables of one API invocation taken alone
apiVars == <<op, req, env, res>>

(***************************************************************************)
(* JavaScript values and arithmetic                                        *)
(***************************************************************************)
Abs(x) == IF x < 0 THEN -x ELSE x

RECURSIVE GCD(_, _)
GCD(a, b) == IF b = 0 THEN a ELSE GCD(b, a % b)

\* the number n/d, d > 0, in lowest terms
Rat(n, d) ==
    LET g == GCD(Abs(n), d)
    IN  [k |-> "num", n |-> n \div g, d |-> d \div g]

Int2Num(i) == [k |-> "num", n |-> i, d |-> 1]

NaN       == [k |-> "nan",   n |-> 0, d |-> 1]
Undefined == [k |-> "undef", n |-> 0, d |-> 1]
Null      == [k |-> "null",  n |-> 0, d |-> 1]
\* a string with non-numeric content, such as "abc"
StrVal    == [k |-> "str",   n |-> 0, d |-> 1]
\* an object or a function, such as {} or Object.prototype.constructor
ObjVal    == [k |-> "obj",   n |-> 0, d |-> 1]

IsNum(v) == v.k = "num"

\* ToNumber: null -> 0; undefined, "abc", {} -> NaN
ToNumber(v) ==
    IF v.k = "num" THEN v
    ELSE IF v.k = "null" THEN Int2Num(0)
    ELSE NaN

\* ToBoolean: 0, NaN, null, undefined are falsy; "abc" and objects are truthy
Truthy(v) ==
    CASE v.k = "num" -> v.n # 0
      [] v.k \in {"str", "obj"} -> TRUE
      [] OTHER -> FALSE

\* a || b
JsOr(a, b) == IF Truthy(a) THEN a ELSE b

RatMul(x, y) ==
    LET g1 == GCD(Abs(x.n), y.d)
        g2 == GCD(Abs(y.n), x.d)
    IN  Rat((x.n \div g1) * (y.n \div g2), (x.d \div g2) * (y.d \div g1))

RatAdd(x, y) ==
    LET g == GCD(x.d, y.d)
        l == (x.d \div g) * y.d
    IN  Rat(x.n * (l \div x.d) + y.n * (l \div y.d), l)

RatNeg(x) == [x EXCEPT !.n = -x.n]

RatLE(x, y) == x.n * y.d <= y.n * x.d

RatLT(x, y) == x.n * y.d < y.n * x.d

\* a * b
JsMul(a, b) ==
    LET x == ToNumber(a)
        y == ToNumber(b)
    IN  IF x.k = "nan" \/ y.k = "nan" THEN NaN ELSE RatMul(x, y)

\* a - b
JsSub(a, b) ==
    LET x == ToNumber(a)
        y == ToNumber(b)
    IN  IF x.k = "nan" \/ y.k = "nan" THEN NaN ELSE RatAdd(x, RatNeg(y))

\* a + b: string concatenation as soon as one operand is a string or an
\* object; the result then holds the non-numeric text and stays non-numeric
JsAdd(a, b) ==
    IF a.k \in {"str", "obj"} \/ b.k \in {"str", "obj"} THEN StrVal
    ELSE LET x == ToNumber(a)
             y == ToNumber(b)
         IN  IF x.k = "nan" \/ y.k = "nan" THEN NaN ELSE RatAdd(x, y)

\* a / len for an array length len >= 0; 0 / 0 is NaN
JsDivLen(a, len) ==
    LET x == ToNumber(a)
    IN  IF x.k = "nan" \/ len = 0 THEN NaN ELSE RatMul(x, Rat(1, len))

\* Math.round: the nearest integer, halves towards +Infinity
MathRound(v) ==
    LET x == ToNumber(v)
    IN  IF x.k = "nan" THEN NaN
        ELSE Int2Num((2 * x.n + x.d) \div (2 * x.d))

\* Math.round(v * scale) / scale
RoundTo(v, scale) ==
    LET r == MathRound(JsMul(v, Int2Num(scale)))
    IN  IF r.k = "nan" THEN NaN ELSE Rat(r.n, scale)

\* Math.max(a, b), Math.min(a, b) on numbers
MathMax(a, b) ==
    IF a.k = "nan" \/ b.k = "nan" THEN NaN
    ELSE IF RatLE(a, b) THEN b ELSE a

MathMin(a, b) ==
    IF a.k = "nan" \/ b.k = "nan" THEN NaN
    ELSE IF RatLE(a, b) THEN a ELSE b

\* JSON.stringify of a value inside res.json(): NaN is written as null
Json(v) == IF v.k = "nan" THEN Null ELSE v

\* arr[i] for a 0-based index; undefined past the end
At(arr, i) == IF i + 1 <= Len(arr) THEN arr[i + 1] ELSE Undefined

\* arr.reduce((a, b) => a + b, 0) over arr[lo..hi].  The sum is exact here,
\* and the coercions of + (string once a string or object is met, else NaN
\* once undefined is met) do not depend on the grouping, so the left-to-right
\* sum is computed by halves
RECURSIVE ReduceAdd(_, _, _)
ReduceAdd(arr, lo, hi) ==
    IF lo > hi THEN Int2Num(0)
    ELSE IF lo = hi THEN JsAdd(Int2Num(0), arr[lo])
    ELSE LET mid == (lo + hi) \div 2
         IN  JsAdd(ReduceAdd(arr, lo, mid), ReduceAdd(arr, mid + 1, hi))

(***************************************************************************)
(* The environment of a call: the server's time zone and Math.random       *)
(***************************************************************************)
\* values Math.random() can return, all in [0, 1)
DrawVals ==
    << Rat(0, 1), Rat(1, 2), Rat(999, 1000), Rat(1, 1000), Rat(9999, 10000) >>

\* number of draw sequences a call can see
NumSeeds == 6

\* the j-th value (j = 0, 1, ...) Math.random() returns during a call:
\* the first seeds give constant sequences, the others walk through DrawVals
Draw(seed, j) ==
    LET n == Len(DrawVals)
    IN  IF seed < n THEN DrawVals[seed + 1]
        ELSE DrawVals[((seed + j * (seed - n + 1)) % n) + 1]

(***************************************************************************)
(* Both handlers: the slot grid                                            *)
(***************************************************************************)
Slots == 96

\* Math.floor(i / 4)
HourOf(i) == i \div 4

\* (i % 4) * 15
MinuteOf(i) == (i % 4) * 15

\* String(n).padStart(2, '0') for 0 <= n <= 99, as its two digits
PadStart2(n) == << n \div 10, n % 10 >>

\* `${String(hour).padStart(2, '0')}:${String(minute).padStart(2, '0')}`
TimePeriod(i) == [hh |-> PadStart2(HourOf(i)), mm |-> PadStart2(MinuteOf(i))]

\* what every handler sets before looking at the request
CorsHeaders == [acao |-> "*"]

Respond(status, body) == [status |-> status, headers |-> CorsHeaders, body |-> body]

\* res.status(200).end()
EndEmpty == Respond(200, [kind |-> "empty"])

\* the 405 response sent without the header
MethodNotAllowedBare ==
    [status |-> 405, headers |-> [acao |-> ""],
     body |-> [kind |-> "error", error |-> "Method not allowed"]]

\* res.status(405).json({ error: 'Method not allowed' })
MethodNotAllowed == Respond(405, [kind |-> "error", error |-> "Method not allowed"])

\* res.status(400).json({ success: false, error: msg })
BadRequest(msg) == Respond(400, [kind |-> "error", success |-> FALSE, error |-> msg])

\* an exception that leaves the handler (the framework answers 500)
Threw(what) == [status |-> 500, headers |-> CorsHeaders,
                body |-> [kind |-> "threw", error |-> what]]

(***************************************************************************)
(* optimize: pages/api/available-dates.js, second handler                  *)
(***************************************************************************)
\* a destructuring default: field = dflt applies to undefined only
Default(v, dflt) == IF v.k = "undef" THEN dflt ELSE v

\* a string value with its text; the absent (undefined) field
Str(s) == [k |-> "str", s |-> s]

NoStr == [k |-> "undef", s |-> ""]

\* a value that is no string, with the property key it is converted to when
\* used as an index: the number 5 gives "5", the array ["low"] gives "low"
NonStr(kind, key) == [k |-> kind, s |-> key]

\* riskFactors[risk_level], looked up under the property key of risk_level:
\* own properties low/medium/high; the names Object.prototype supplies
\* (constructor, toString, ...) give a function; every other key gives
\* undefined
\* the table with 0.8 for "low"
RiskLookupLowAt08(level) ==
    CASE level.s = "low"         -> Rat(8, 10)
      [] level.s = "medium"      -> Int2Num(1)
      [] level.s = "high"        -> Rat(11, 10)
      [] level.s = "constructor" -> ObjVal
      [] OTHER                   -> Undefined

RiskLookup(level) ==
    CASE level.s = "low"         -> Rat(9, 10)
      [] level.s = "medium"      -> Int2Num(1)
      [] level.s = "high"        -> Rat(11, 10)
      [] level.s = "constructor" -> ObjVal
      [] OTHER                   -> Undefined

\* riskFactors[risk_level] || 1.0
RiskFactor(level) == JsOr(RiskLookup(level), Int2Num(1))

CapacityRatio(hour) ==
    IF hour >= 7 /\ hour < 9 THEN Rat(8, 10)
    ELSE IF hour >= 18 /\ hour < 21 THEN Rat(9, 10)
    ELSE IF hour >= 0 /\ hour < 6 THEN Rat(3, 10)
    ELSE Rat(5, 10)

PriceRatio(hour) ==
    IF hour >= 7 /\ hour < 9 THEN Rat(11, 10)
    ELSE IF hour >= 18 /\ hour < 21 THEN Rat(115, 100)
    ELSE IF hour >= 0 /\ hour < 6 THEN Rat(85, 100)
    ELSE Int2Num(1)

\* whether (a, b) => a - b orders every pair of the array
Comparable(items) == \A i \in 1..Len(items) : items[i].k \in {"num", "null"}

\* [...predicted_prices].sort((a, b) => a - b): ascending when every
\* difference is a number; with a NaN difference the order is left to the
\* engine, so any arrangement of the elements may come out
SortOutcomes(items) ==
    IF Comparable(items)
    THEN { SortSeq(items, LAMBDA a, b : RatLT(ToNumber(a), ToNumber(b))) }
    ELSE { [i \in 1..Len(items) |-> items[p[i]]] : p \in Permutations(1..Len(items)) }

\* the first element of the sorted copy taken for the mean
AvgPriceOfFirst(sortedPrices) == ToNumber(At(sortedPrices, 0))

\* sortedPrices.reduce((a, b) => a + b, 0) / sortedPrices.length
AvgPrice(sortedPrices) ==
    JsDivLen(ReduceAdd(sortedPrices, 1, Len(sortedPrices)), Len(sortedPrices))

\* sortedPrices[Math.floor(sortedPrices.length / 2)]
MedianPrice(sortedPrices) == At(sortedPrices, Len(sortedPrices) \div 2)

\* predicted_prices[i] || avgPrice
PredictedPriceAt(items, i, avgPrice) == JsOr(At(items, i), avgPrice)

\* the product cut down to an integer instead of rounded
CapacityFloor(max_capacity, hour) ==
    LET x == JsMul(max_capacity, CapacityRatio(hour))
    IN  IF x.k = "nan" THEN NaN ELSE Int2Num(x.n \div x.d)

\* Math.round(max_capacity * capacityRatio)
Capacity(max_capacity, hour) == MathRound(JsMul(max_capacity, CapacityRatio(hour)))

\* Math.round(predictedPrice * priceRatio * riskFactor * 100) / 100
BidPrice(predictedPrice, hour, riskFactor) ==
    LET x == JsMul(JsMul(JsMul(predictedPrice, PriceRatio(hour)), riskFactor), Int2Num(100))
        r == MathRound(x)
    IN  IF r.k = "nan" THEN NaN ELSE Rat(r.n, 100)

\* the probability without its two bounds
WinProbabilityUnclamped(hour) ==
    JsSub(Rat(95, 100), JsMul(JsSub(PriceRatio(hour), Int2Num(1)), Rat(1, 2)))

\* Math.max(0.1, Math.min(0.95, 0.95 - (priceRatio - 1) * 0.5))
WinProbability(hour) ==
    MathMax(Rat(1, 10),
            MathMin(Rat(95, 100),
                    JsSub(Rat(95, 100),
                          JsMul(JsSub(PriceRatio(hour), Int2Num(1)), Rat(1, 2)))))

\* the profit without the cost term predictedPrice * 0.7
ExpectedProfitNoCost(capacity, bidPrice, predictedPrice, winProbability) ==
    MathRound(JsMul(JsMul(capacity, bidPrice), winProbability))

\* Math.round(capacity * (bidPrice - predictedPrice * 0.7) * winProbability)
ExpectedProfit(capacity, bidPrice, predictedPrice, winProbability) ==
    MathRound(JsMul(JsMul(capacity, JsSub(bidPrice, JsMul(predictedPrice, Rat(7, 10)))),
                    winProbability))

\* one pass of the loop body, as the entry pushed (before serialisation)
BidEntry(i, items, max_capacity, riskFactor, avgPrice) ==
    LET hour           == HourOf(i)
        capacity       == Capacity(max_capacity, hour)
        predictedPrice == PredictedPriceAt(items, i, avgPrice)
        bidPrice       == BidPrice(predictedPrice, hour, riskFactor)
        winProbability == WinProbability(hour)
        expectedProfit == ExpectedProfit(capacity, bidPrice, predictedPrice, winProbability)
    IN  [ time_period     |-> TimePeriod(i),
          bid_price       |-> bidPrice,
          bid_quantity    |-> capacity,
          win_probability |-> RoundTo(winProbability, 1000),
          expected_profit |-> expectedProfit,
          predicted_price |-> predictedPrice ]

\* the loop for (let i = 0; i < 96; i++) { ... optimizedBids.push(...) }
\* restricted to lo <= i <= hi: the entries in push order (each pass reads
\* only i and the values fixed before the loop, so the loop is built by halves)
RECURSIVE BidLoop(_, _, _, _, _, _)
BidLoop(lo, hi, items, max_capacity, riskFactor, avgPrice) ==
    IF lo = hi THEN << BidEntry(lo, items, max_capacity, riskFactor, avgPrice) >>
    ELSE LET mid == (lo + hi) \div 2
         IN  BidLoop(lo, mid, items, max_capacity, riskFactor, avgPrice)
             \o BidLoop(mid + 1, hi, items, max_capacity, riskFactor, avgPrice)

\* optimizedBids.reduce((sum, bid) => sum + bid.<field>, 0)
SumField(bids, field) ==
    ReduceAdd([j \in 1..Len(bids) |-> bids[j][field]], 1, Len(bids))

\* the reduction started at the second entry
TotalCapacitySkipFirst(bids) == SumField(Tail(bids), "bid_quantity")

TotalCapacity(bids) == SumField(bids, "bid_quantity")

AvgWinProb(bids) == JsDivLen(SumField(bids, "win_probability"), Len(bids))

\* the reduction started at the second entry
TotalExpectedProfitSkipFirst(bids) == SumField(Tail(bids), "expected_profit")

TotalExpectedProfit(bids) == SumField(bids, "expected_profit")

AvgBidPrice(bids) == JsDivLen(SumField(bids, "bid_price"), Len(bids))

\* the summary object of the response
Summary(bids, risk_level) ==
    [ total_capacity          |-> Json(TotalCapacity(bids)),
      average_win_probability |-> Json(RoundTo(AvgWinProb(bids), 1000)),
      expected_profit         |-> Json(MathRound(TotalExpectedProfit(bids))),
      average_bid_price       |-> Json(RoundTo(AvgBidPrice(bids), 100)),
      risk_level              |-> risk_level,
      total_bids              |-> Len(bids) ]

\* an entry as JSON.stringify writes it
JsonEntry(e) ==
    [ time_period     |-> e.time_period,
      bid_price       |-> Json(e.bid_price),
      bid_quantity    |-> Json(e.bid_quantity),
      win_probability |-> Json(e.win_probability),
      expected_profit |-> Json(e.expected_profit),
      predicted_price |-> Json(e.predicted_price) ]

\* a parsed body: predicted_prices is an array of values or something else
Arr(items) == [k |-> "arr", items |-> items]

NotArr(kind) == [k |-> kind, items |-> << >>]

\* req.body || {}: every field undefined
EmptyOptimizeBody ==
    [ predicted_prices |-> NotArr("undef"), max_capacity |-> Undefined,
      min_capacity |-> Undefined, risk_level |-> NoStr ]

\* the handler with the capacity of every slot computed from the greater of
\* max_capacity and min_capacity
OptimizeHandlerMinApplied(r, sortedPrices, draw0) ==
    IF r.method = "OPTIONS" THEN EndEmpty
    ELSE IF r.method # "POST" THEN MethodNotAllowed
    ELSE
      LET body             == IF r.hasBody THEN r.body ELSE EmptyOptimizeBody
          predicted_prices == body.predicted_prices
          min_capacity     == Default(body.min_capacity, Int2Num(100))
          max_capacity     == MathMax(ToNumber(Default(body.max_capacity, Int2Num(1000))),
                                      ToNumber(min_capacity))
          risk_level       == Default(body.risk_level, Str("medium"))
      IN  IF predicted_prices.k # "arr"
          THEN BadRequest("Predicted prices array is required")
          ELSE
            LET items       == predicted_prices.items
                riskFactor  == RiskFactor(risk_level)
                avgPrice    == AvgPrice(sortedPrices)
                bids        == BidLoop(0, Slots - 1, items, max_capacity, riskFactor,
                                       avgPrice)
            IN  Respond(200,
                  [ kind           |-> "success",
                    success        |-> TRUE,
                    optimized_bids |-> [ j \in 1..Slots |-> JsonEntry(bids[j]) ],
                    summary        |-> Summary(bids, risk_level),
                    rec_avg_price  |-> MathRound(avgPrice),
                    rec_bid_price  |-> MathRound(AvgBidPrice(bids)),
                    execution_time |-> MathRound(JsAdd(JsMul(draw0, Int2Num(500)),
                                                       Int2Num(100))) ])

\* the handler; sortedPrices is the outcome of the sort, draw0 the value
\* Math.random() returns for execution_time
OptimizeHandler(r, sortedPrices, draw0) ==
    IF r.method = "OPTIONS" THEN EndEmpty
    ELSE IF r.method # "POST" THEN MethodNotAllowed
    ELSE
      LET body             == IF r.hasBody THEN r.body ELSE EmptyOptimizeBody
          predicted_prices == body.predicted_prices
          max_capacity     == Default(body.max_capacity, Int2Num(1000))
          min_capacity     == Default(body.min_capacity, Int2Num(100))
          risk_level       == Default(body.risk_level, Str("medium"))
      IN  IF predicted_prices.k # "arr"
          THEN BadRequest("Predicted prices array is required")
          ELSE
            LET items       == predicted_prices.items
                riskFactor  == RiskFactor(risk_level)
                avgPrice    == AvgPrice(sortedPrices)
                bids        == BidLoop(0, Slots - 1, items, max_capacity, riskFactor,
                                       avgPrice)
            IN  Respond(200,
                  [ kind           |-> "success",
                    success        |-> TRUE,
                    optimized_bids |-> [ j \in 1..Slots |-> JsonEntry(bids[j]) ],
                    summary        |-> Summary(bids, risk_level),
                    rec_avg_price  |-> MathRound(avgPrice),
                    rec_bid_price  |-> MathRound(AvgBidPrice(bids)),
                    execution_time |-> MathRound(JsAdd(JsMul(draw0, Int2Num(500)),
                                                       Int2Num(100))) ])

(***************************************************************************)
(* predict: pages/api/predict.js                                           *)
(***************************************************************************)
\* Times are minutes relative to 00:00 UTC of the requested calendar date.
\* The rule of a time zone around a date is its offset at the start of the
\* date (minutes east of UTC) and, when the clocks move forward by an hour
\* on that date, the UTC minute at which they do.
ZoneRule(zone, date) ==
    CASE zone = "UTC"              -> [off |-> 0,    dst |-> FALSE, dstAt |-> 0]
      [] zone = "Asia/Shanghai"    -> [off |-> 480,  dst |-> FALSE, dstAt |-> 0]
      [] zone = "America/New_York" -> [off |-> -240, dst |-> FALSE, dstAt |-> 0]
      [] zone = "Europe/Berlin" /\ date = "2025-03-30"
                                   -> [off |-> 60,   dst |-> TRUE,  dstAt |-> 60]
      [] OTHER                     -> [off |-> 120,  dst |-> FALSE, dstAt |-> 0]

\* local wall-clock minute of the UTC minute u
UtcToLocal(tz, u) == u + tz.off + (IF tz.dst /\ u >= tz.dstAt THEN 60 ELSE 0)

\* UTC minute of the local wall-clock minute l; a wall-clock time inside the
\* skipped hour is read with the offset in force before the change
LocalToUtc(tz, l) ==
    IF tz.dst /\ l >= tz.dstAt + tz.off + 60 THEN l - tz.off - 60 ELSE l - tz.off

\* the calendar date a date string names
DateOf(date) == IF date = "2025-06-30T00:00:00" THEN "2025-06-30" ELSE date

\* new Date(date): a date-only ISO string is UTC midnight, a date-time
\* string without zone is local time, anything else is an Invalid Date
ParseDate(date, zone) ==
    CASE date \in {"2025-06-30", "2025-06-29", "2025-03-30"} -> [valid |-> TRUE, t |-> 0]
      [] date = "2025-06-30T00:00:00" ->
             [valid |-> TRUE, t |-> LocalToUtc(ZoneRule(zone, DateOf(date)), 0)]
      [] OTHER -> [valid |-> FALSE, t |-> 0]

\* !date
DateMissing(date) == date \in {"undefined", ""}

\* timestamp.setHours(hour, minute, 0, 0): the local day is kept
SetHours(tz, t, hour, minute) ==
    LET local == UtcToLocal(tz, t)
        day   == local \div 1440
    IN  LocalToUtc(tz, day * 1440 + hour * 60 + minute)

\* toISOString() of a valid time: the UTC calendar day (relative to D) and
\* the two-digit UTC hour and minute; seconds and milliseconds are zero
ToISOString(t) ==
    [ day |-> t \div 1440,
      hh  |-> PadStart2((t % 1440) \div 60),
      mm  |-> PadStart2(t % 60) ]

\* the chain with an evening spread of 150 instead of 120
SlotPriceWide(hour, r) ==
    IF hour >= 7 /\ hour < 9 THEN JsAdd(Int2Num(560), JsMul(r, Int2Num(80)))
    ELSE IF hour >= 18 /\ hour < 21 THEN JsAdd(Int2Num(610), JsMul(r, Int2Num(150)))
    ELSE IF hour >= 0 /\ hour < 6 THEN JsAdd(Int2Num(260), JsMul(r, Int2Num(40)))
    ELSE JsAdd(Int2Num(410), JsMul(r, Int2Num(90)))

\* the if/else chain on the hour: base + Math.random() * spread
SlotPrice(hour, r) ==
    IF hour >= 7 /\ hour < 9 THEN JsAdd(Int2Num(560), JsMul(r, Int2Num(80)))
    ELSE IF hour >= 18 /\ hour < 21 THEN JsAdd(Int2Num(610), JsMul(r, Int2Num(120)))
    ELSE IF hour >= 0 /\ hour < 6 THEN JsAdd(Int2Num(260), JsMul(r, Int2Num(40)))
    ELSE JsAdd(Int2Num(410), JsMul(r, Int2Num(90)))

\* the confidence with a spread of 0.15 instead of 0.1
ConfidenceWide(r) == JsAdd(Rat(85, 100), JsMul(r, Rat(15, 100)))

\* 0.85 + Math.random() * 0.1
Confidence(r) == JsAdd(Rat(85, 100), JsMul(r, Rat(1, 10)))

\* predictedPrice * 0.1
Margin(predictedPrice) == JsMul(predictedPrice, Rat(1, 10))

\* one pass of the loop body; r1 and r2 are its two Math.random() values
Prediction(i, base, tz, r1, r2) ==
    LET hour           == HourOf(i)
        minute         == MinuteOf(i)
        timestamp      == SetHours(tz, base, hour, minute)
        predictedPrice == SlotPrice(hour, r1)
        confidence     == Confidence(r2)
        margin         == Margin(predictedPrice)
    IN  [ timestamp       |-> ToISOString(timestamp),
          predicted_price |-> RoundTo(predictedPrice, 100),
          confidence      |-> RoundTo(confidence, 1000),
          lower_bound     |-> RoundTo(JsSub(predictedPrice, margin), 100),
          upper_bound     |-> RoundTo(JsAdd(predictedPrice, margin), 100) ]

\* the loop for (let i = 0; i < 96; i++) { ... predictions.push(...) }
\* restricted to lo <= i <= hi; pass i takes draws 2i and 2i + 1
RECURSIVE PredictionLoop(_, _, _, _, _)
PredictionLoop(lo, hi, base, tz, seed) ==
    IF lo = hi
    THEN << Prediction(lo, base, tz, Draw(seed, 2 * lo), Draw(seed, 2 * lo + 1)) >>
    ELSE LET mid == (lo + hi) \div 2
         IN  PredictionLoop(lo, mid, base, tz, seed)
             \o PredictionLoop(mid + 1, hi, base, tz, seed)

\* Math.min(...prices), Math.max(...prices) over prices[lo..hi], by halves
RECURSIVE MinOf(_, _, _)
MinOf(prices, lo, hi) ==
    IF lo = hi THEN prices[lo]
    ELSE LET mid == (lo + hi) \div 2
         IN  MathMin(MinOf(prices, lo, mid), MinOf(prices, mid + 1, hi))

RECURSIVE MaxOf(_, _, _)
MaxOf(prices, lo, hi) ==
    IF lo = hi THEN prices[lo]
    ELSE LET mid == (lo + hi) \div 2
         IN  MathMax(MaxOf(prices, lo, mid), MaxOf(prices, mid + 1, hi))

\* the statistics object; prices is predictions.map(p => p.predicted_price)
Statistics(ps) ==
    LET prices == [j \in 1..Len(ps) |-> ps[j].predicted_price]
    IN  [ count              |-> Len(ps),
          average_price      |-> RoundTo(JsDivLen(ReduceAdd(prices, 1, Len(prices)),
                                                  Len(prices)), 100),
          average_confidence |-> RoundTo(JsDivLen(SumField(ps, "confidence"), Len(ps)), 1000),
          min_price          |-> RoundTo(MinOf(prices, 1, Len(prices)), 100),
          max_price          |-> RoundTo(MaxOf(prices, 1, Len(prices)), 100) ]

\* the name 'ensemble' whatever was requested
ModelNameFixed(model) == "ensemble"

\* model || 'ensemble'
ModelName(model) == IF model.k = "str" /\ model.s # "" THEN model.s ELSE "ensemble"

\* req.body || {}
EmptyPredictBody == [date |-> "undefined", model |-> NoStr]

\* the handler with the body validated before the method is looked at
PredictHandlerValidatesFirst(r, e) ==
    LET body == IF r.hasBody THEN r.body ELSE EmptyPredictBody
    IN  IF DateMissing(body.date) THEN BadRequest("Date parameter is required")
        ELSE IF r.method = "OPTIONS" THEN EndEmpty
        ELSE IF r.method # "POST" THEN MethodNotAllowed
        ELSE
          LET baseDate == ParseDate(body.date, e.tz)
              tz       == ZoneRule(e.tz, DateOf(body.date))
          IN  IF ~baseDate.valid
              THEN Threw("RangeError: Invalid time value")
              ELSE
                LET predictions ==
                      PredictionLoop(0, Slots - 1, baseDate.t, tz, e.seed)
                IN  Respond(200,
                      [ kind        |-> "success",
                        success     |-> TRUE,
                        date        |-> body.date,
                        predictions |-> predictions,
                        statistics  |-> Statistics(predictions),
                        model_name  |-> ModelName(body.model) ])

\* the handler, in time zone e.tz and with the draws of seed e.seed
PredictHandler(r, e) ==
    IF r.method = "OPTIONS" THEN EndEmpty
    ELSE IF r.method # "POST" THEN MethodNotAllowed
    ELSE
      LET body == IF r.hasBody THEN r.body ELSE EmptyPredictBody
      IN  IF DateMissing(body.date) THEN BadRequest("Date parameter is required")
          ELSE
            LET baseDate == ParseDate(body.date, e.tz)
                tz       == ZoneRule(e.tz, DateOf(body.date))
            IN  IF ~baseDate.valid
                THEN \* toISOString() of an Invalid Date, in the first pass
                     Threw("RangeError: Invalid time value")
                ELSE
                  LET predictions ==
                        PredictionLoop(0, Slots - 1, baseDate.t, tz, e.seed)
                  IN  Respond(200,
                        [ kind        |-> "success",
                          success     |-> TRUE,
                          date        |-> body.date,
                          predictions |-> predictions,
                          statistics  |-> Statistics(predictions),
                          model_name  |-> ModelName(body.model) ])

(***************************************************************************)
(* available-dates: pages/api/available-dates.js, first handler            *)
(***************************************************************************)
\* String(n).padStart(2, '0') as text
Pad2Str(n) == IF n < 10 THEN "0" \o ToString(n) ELSE ToString(n)

\* toISOString().split('T')[0] of the UTC day n days after 2025-05-01,
\* for the days of May and June
IsoDate(n) ==
    IF n < 31 THEN "2025-05-" \o Pad2Str(n + 1) ELSE "2025-06-" \o Pad2Str(n - 30)

\* d after k rounds of d.setDate(d.getDate() + 1), in minutes from
\* 2025-05-01T00:00Z: k local days later
SetDatePlus(tz, t, k) == LocalToUtc(tz, UtcToLocal(tz, t) + k * 1440)

\* the loop for (d = startDate; d <= endDate; d.setDate(...)) restricted to
\* its rounds lo..hi; endDate is 60 days after startDate
RECURSIVE DatesLoop(_, _, _)
DatesLoop(lo, hi, tz) ==
    IF lo = hi
    THEN LET d == SetDatePlus(tz, 0, lo)
         IN  IF d <= 60 * 1440 THEN << IsoDate(d \div 1440) >> ELSE << >>
    ELSE LET mid == (lo + hi) \div 2
         IN  DatesLoop(lo, mid, tz) \o DatesLoop(mid + 1, hi, tz)

\* the handler, in time zone zone
AvailableDatesHandler(r, zone) ==
    IF r.method = "OPTIONS" THEN EndEmpty
    ELSE IF r.method # "GET" THEN MethodNotAllowed
    ELSE
      LET dates == DatesLoop(0, 60, ZoneRule(zone, "2025-05-01"))
      IN  Respond(200,
            [ kind    |-> "success",
              success |-> TRUE,
              dates   |-> dates,
              count   |-> Len(dates),
              range   |-> [start |-> "2025-05-01", end |-> "2025-06-30"] ])

(***************************************************************************)
(* historical-prices: pages/api/historical-prices.js                       *)
(***************************************************************************)
\* the if/else chain on the hour: base + Math.random() * spread
HistoricalPrice(hour, r) ==
    IF hour >= 7 /\ hour < 9 THEN JsAdd(Int2Num(550), JsMul(r, Int2Num(100)))
    ELSE IF hour >= 18 /\ hour < 21 THEN JsAdd(Int2Num(600), JsMul(r, Int2Num(150)))
    ELSE IF hour >= 0 /\ hour < 6 THEN JsAdd(Int2Num(250), JsMul(r, Int2Num(50)))
    ELSE JsAdd(Int2Num(400), JsMul(r, Int2Num(100)))

\* one pass of the loop body; r1 and r2 are its two Math.random() values
HistoricalPoint(i, base, tz, r1, r2) ==
    [ timestamp |-> ToISOString(SetHours(tz, base, HourOf(i), MinuteOf(i))),
      price     |-> RoundTo(HistoricalPrice(HourOf(i), r1), 100),
      load      |-> RoundTo(JsAdd(Int2Num(800), JsMul(r2, Int2Num(400))), 10) ]

\* the loop for (let i = 0; i < 96; i++) { ... data.push(...) } restricted
\* to lo <= i <= hi; pass i takes draws 2i and 2i + 1
RECURSIVE HistoricalLoop(_, _, _, _, _)
HistoricalLoop(lo, hi, base, tz, seed) ==
    IF lo = hi
    THEN << HistoricalPoint(lo, base, tz, Draw(seed, 2 * lo), Draw(seed, 2 * lo + 1)) >>
    ELSE LET mid == (lo + hi) \div 2
         IN  HistoricalLoop(lo, mid, base, tz, seed)
             \o HistoricalLoop(mid + 1, hi, base, tz, seed)

\* the statistics object; prices is data.map(d => d.price)
HistoricalStatistics(data) ==
    LET prices == [j \in 1..Len(data) |-> data[j].price]
    IN  [ count         |-> Len(data),
          average_price |-> RoundTo(JsDivLen(ReduceAdd(prices, 1, Len(prices)),
                                             Len(prices)), 100),
          min_price     |-> RoundTo(MinOf(prices, 1, Len(prices)), 100),
          max_price     |-> RoundTo(MaxOf(prices, 1, Len(prices)), 100) ]

\* the handler, in time zone e.tz and with the draws of seed e.seed
HistoricalHandler(r, e) ==
    IF r.method = "OPTIONS" THEN EndEmpty
    ELSE IF r.method # "GET" THEN MethodNotAllowed
    ELSE IF DateMissing(r.query.date) THEN BadRequest("Date parameter is required")
    ELSE
      LET baseDate == ParseDate(r.query.date, e.tz)
          tz       == ZoneRule(e.tz, DateOf(r.query.date))
      IN  IF ~baseDate.valid
          THEN \* toISOString() of an Invalid Date, in the first pass
               Threw("RangeError: Invalid time value")
          ELSE
            LET data == HistoricalLoop(0, Slots - 1, baseDate.t, tz, e.seed)
            IN  Respond(200,
                  [ kind       |-> "success",
                    success    |-> TRUE,
                    date       |-> r.query.date,
                    data       |-> data,
                    statistics |-> HistoricalStatistics(data) ])

(***************************************************************************)
(* database status: pages/api/database/status.js                           *)
(***************************************************************************)
\* the statusData literal
StatusData ==
    [ kind     |-> "success",
      success  |-> TRUE,
      database |-> [ recordCount |-> 5731, status |-> "active",
                     lastUpdate |-> "2025-06-30 23:45:00" ],
      statistics |-> [ price_stats |-> [ avg |-> Rat(45025, 100), min |-> Int2Num(200),
                                        max |-> Int2Num(800), median |-> Int2Num(445) ],
                       time_range  |-> [start |-> "2025-05-01", end |-> "2025-06-30"] ],
      metadata |-> [total_days |-> 61, records_per_day |-> 96, data_points |-> 5856] ]

StatusHandler(r) ==
    IF r.method = "OPTIONS" THEN EndEmpty
    ELSE IF r.method # "GET" THEN MethodNotAllowed
    ELSE Respond(200, StatusData)

(***************************************************************************)
(* Requests                                                                *)
(***************************************************************************)
Methods == {"OPTIONS", "GET", "POST"}

\* time zones a server may run in
TimeZones == {"UTC", "Asia/Shanghai", "America/New_York", "Europe/Berlin"}

Seeds == 0..(NumSeeds - 1)

Envs == [tz : TimeZones, seed : Seeds]

Dates == {"undefined", "", "2025-06-30", "2025-03-30", "2025-06-30T00:00:00", "not-a-date"}

Models == {NoStr, Str(""), Str("lstm")}

PredictRequests ==
    [method : {"POST"}, hasBody : {TRUE}, body : [date : Dates, model : Models]]
    \cup [method : Methods, hasBody : {FALSE}, body : {EmptyPredictBody}]
    \cup [method : {"OPTIONS", "GET"}, hasBody : {TRUE},
          body : {[date |-> "2025-06-30", model |-> NoStr]}]

\* prices a caller may supply
PriceVals == << Rat(500, 1), Rat(0, 1), Rat(-100, 1), Rat(33333, 100), Rat(1, 100) >>

\* elements of the arrays enumerated element by element: three of the
\* prices, and the other values a JSON array may hold
Elems == {PriceVals[1], PriceVals[2], PriceVals[3], Null, StrVal, ObjVal}

\* longest array enumerated element by element
MaxShortLen == 2

ShortArrays == UNION { [1..n -> Elems] : n \in 0..MaxShortLen }

\* number of 96-element price series
NumPatterns == 6

\* the i-th price (0-based) of the p-th series: a flat series, a series of
\* positive prices following the day's segments, and series that walk
\* through PriceVals with different strides
PatternPrice(p, i) ==
    CASE p = 1 -> Rat(500, 1)
      [] p = 2 -> RatAdd(RatMul(PriceRatio(HourOf(i)), Int2Num(400)), Rat(i, 4))
      [] OTHER -> PriceVals[((i * (p - 2) + (i \div 4)) % Len(PriceVals)) + 1]

RECURSIVE PatternSeq(_, _, _)
PatternSeq(p, lo, hi) ==
    IF lo = hi THEN << PatternPrice(p, lo) >>
    ELSE LET mid == (lo + hi) \div 2
         IN  PatternSeq(p, lo, mid) \o PatternSeq(p, mid + 1, hi)

FullArray(p) == PatternSeq(p, 0, Slots - 1)

FullArrays == { FullArray(p) : p \in 1..NumPatterns }

NonArrays == { NotArr("undef"), NotArr("null"), NotArr("str"), NotArr("obj") }

\* a price of half a cent
SubCentPrice == Rat(1, 200)

MaxCapacities == {Undefined, Int2Num(-10), Rat(3, 5), Int2Num(3)}

MinCapacities == {Undefined, Int2Num(2000)}

RiskLevels ==
    { NoStr, Str("low"), Str("medium"), Str("high"), Str("extreme"), Str("constructor"),
      NonStr("num", "5"), NonStr("arr", "low") }

OptimizeRequests ==
    \* validation, short and non-numeric arrays, default capacities
    [ method : {"POST"}, hasBody : {TRUE},
      body : [ predicted_prices : NonArrays \cup { Arr(a) : a \in ShortArrays },
               max_capacity : {Undefined}, min_capacity : {Undefined},
               risk_level : {Str("low"), Str("high")} ] ]
    \cup
    \* a series of sub-cent prices
    [ method : {"POST"}, hasBody : {TRUE},
      body : [ predicted_prices : { Arr(<< SubCentPrice >>), Arr(<< SubCentPrice, PriceVals[5] >>) },
               max_capacity : {Undefined}, min_capacity : {Undefined},
               risk_level : {Str("low"), Str("medium"), Str("high")} ] ]
    \cup
    \* 96-element series with every capacity and risk level
    [ method : {"POST"}, hasBody : {TRUE},
      body : [ predicted_prices : { Arr(a) : a \in FullArrays },
               max_capacity : MaxCapacities, min_capacity : MinCapacities,
               risk_level : RiskLevels ] ]
    \cup
    \* other methods, and a request without a body
    [ method : Methods, hasBody : {FALSE}, body : {EmptyOptimizeBody} ]
    \cup
    [ method : {"OPTIONS", "GET"}, hasBody : {TRUE},
      body : [ predicted_prices : { Arr(FullArray(1)) },
               max_capacity : {Undefined}, min_capacity : {Undefined},
               risk_level : {NoStr} ] ]

\* the draw sequences an optimize call is run with: every one for the flat
\* series with default parameters, the first one for the other requests
OptimizeSeeds(r) ==
    IF r.method = "POST" /\ r.hasBody /\ r.body.predicted_prices = Arr(FullArray(1))
       /\ r.body.max_capacity = Undefined /\ r.body.min_capacity = Undefined
       /\ r.body.risk_level = NoStr
    THEN Seeds ELSE {0}

\* requests of the three GET handlers
HistoricalDates == {"undefined", "", "2025-06-30", "2025-06-29", "not-a-date"}

HistoricalRequests == [method : Methods, query : [date : HistoricalDates]]

HistoricalEnvs == [tz : TimeZones, seed : {0, NumSeeds - 1}]

PlainRequests == [method : Methods]

(***************************************************************************)
(* The state machine: a request arrives, its handler runs, the response    *)
(* leaves.  A handler is synchronous: it runs from its first line to its   *)
(* response in one step.                                                   *)
(***************************************************************************)
NoResponse == [status |-> 0, headers |-> [acao |-> ""], body |-> [kind |-> "none"]]

NoRequest == [method |-> "", hasBody |-> FALSE, body |-> EmptyPredictBody]

\* the variables of the other two state machines, at rest
AtRest(v) == v = << >>

Init ==
    /\ op = "idle"
    /\ req = NoRequest
    /\ env = [tz |-> "UTC", seed |-> 0]
    /\ res = NoResponse
    /\ AtRest(calls) /\ AtRest(ui) /\ AtRest(net)

\* a request for pages/api/predict.js arrives
ArrivePredict ==
    /\ op = "idle"
    /\ \E r \in PredictRequests, e \in Envs :
         /\ op' = "predict"
         /\ req' = r
         /\ env' = e
    /\ res' = NoResponse
    /\ UNCHANGED <<calls, ui, net>>

\* a request for the optimize handler arrives
ArriveOptimize ==
    /\ op = "idle"
    /\ \E r \in OptimizeRequests :
         \E seed \in OptimizeSeeds(r) :
            /\ op' = "optimize"
            /\ req' = r
            /\ env' = [tz |-> "UTC", seed |-> seed]
    /\ res' = NoResponse
    /\ UNCHANGED <<calls, ui, net>>

\* a request for the available-dates handler arrives
ArriveAvailableDates ==
    /\ op = "idle"
    /\ \E r \in PlainRequests, zone \in TimeZones :
         /\ op' = "available-dates"
         /\ req' = r
         /\ env' = [tz |-> zone, seed |-> 0]
    /\ res' = NoResponse
    /\ UNCHANGED <<calls, ui, net>>

\* a request for pages/api/historical-prices.js arrives
ArriveHistorical ==
    /\ op = "idle"
    /\ \E r \in HistoricalRequests, e \in HistoricalEnvs :
         /\ op' = "historical-prices"
         /\ req' = r
         /\ env' = e
    /\ res' = NoResponse
    /\ UNCHANGED <<calls, ui, net>>

\* a request for pages/api/database/status.js arrives
ArriveStatus ==
    /\ op = "idle"
    /\ \E r \in PlainRequests :
         /\ op' = "status"
         /\ req' = r
    /\ env' = [tz |-> "UTC", seed |-> 0]
    /\ res' = NoResponse
    /\ UNCHANGED <<calls, ui, net>>

\* pages/api/predict.js handles the request
Predict ==
    /\ op = "predict"
    /\ res = NoResponse
    /\ res' = PredictHandler(req, env)
    /\ UNCHANGED <<op, req, env, calls, ui, net>>

\* the optimize handler handles the request
Optimize ==
    /\ op = "optimize"
    /\ res = NoResponse
    /\ LET pp == IF req.hasBody THEN req.body.predicted_prices ELSE NotArr("undef")
       IN  \E sortedPrices \in SortOutcomes(pp.items) :
              res' = OptimizeHandler(req, sortedPrices, Draw(env.seed, 0))
    /\ UNCHANGED <<op, req, env, calls, ui, net>>

\* the available-dates handler handles the request
AvailableDates ==
    /\ op = "available-dates"
    /\ res = NoResponse
    /\ res' = AvailableDatesHandler(req, env.tz)
    /\ UNCHANGED <<op, req, env, calls, ui, net>>

\* pages/api/historical-prices.js handles the request
Historical ==
    /\ op = "historical-prices"
    /\ res = NoResponse
    /\ res' = HistoricalHandler(req, env)
    /\ UNCHANGED <<op, req, env, calls, ui, net>>

\* pages/api/database/status.js handles the request
Status ==
    /\ op = "status"
    /\ res = NoResponse
    /\ res' = StatusHandler(req)
    /\ UNCHANGED <<op, req, env, calls, ui, net>>

\* the response has been sent; the invocation's values are dropped
Finish ==
    /\ res # NoResponse
    /\ op' = "idle"
    /\ req' = NoRequest
    /\ env' = [tz |-> "UTC", seed |-> 0]
    /\ res' = NoResponse
    /\ UNCHANGED <<calls, ui, net>>

Next ==
    \/ ArrivePredict \/ ArriveOptimize \/ ArriveAvailableDates \/ ArriveHistorical
    \/ ArriveStatus
    \/ Predict \/ Optimize \/ AvailableDates \/ Historical \/ Status
    \/ Finish

Spec == Init /\ [][Next]_vars

(***************************************************************************)
(* Concurrent invocations.  The handlers keep everything in the locals of  *)
(* the invocation (req, res and the const / let of the function body); the *)
(* modules declare no variable outside the handler.  Each invocation in    *)
(* flight has its own record; they take their steps in any order.          *)
(***************************************************************************)
\* the invocations that may be in flight together
CallIds == {"c1", "c2", "c3"}

\* what an invocation is called with: the handler, its request and the
\* time zone and draws it sees
ConcInputs ==
    { [ op  |-> "predict",
        req |-> [method |-> "POST", hasBody |-> TRUE,
                 body |-> [date |-> "2025-06-30", model |-> NoStr]],
        env |-> [tz |-> "UTC", seed |-> 0] ],
      [ op  |-> "predict",
        req |-> [method |-> "POST", hasBody |-> TRUE,
                 body |-> [date |-> "2025-06-30", model |-> NoStr]],
        env |-> [tz |-> "Asia/Shanghai", seed |-> NumSeeds - 1] ],
      [ op  |-> "predict",
        req |-> [method |-> "POST", hasBody |-> FALSE, body |-> EmptyPredictBody],
        env |-> [tz |-> "UTC", seed |-> 0] ],
      [ op  |-> "optimize",
        req |-> [method |-> "POST", hasBody |-> TRUE,
                 body |-> [ predicted_prices |-> Arr(<< PriceVals[1], PriceVals[3] >>),
                            max_capacity |-> Undefined, min_capacity |-> Undefined,
                            risk_level |-> Str("low") ]],
        env |-> [tz |-> "UTC", seed |-> 1] ],
      [ op  |-> "optimize",
        req |-> [method |-> "GET", hasBody |-> FALSE, body |-> EmptyOptimizeBody],
        env |-> [tz |-> "UTC", seed |-> 0] ] }

IdleCall ==
    [ pc |-> "idle", op |-> "", req |-> NoRequest,
      env |-> [tz |-> "UTC", seed |-> 0], res |-> NoResponse ]

\* the arguments kept in one place for all invocations: every invocation
\* reads those of one invocation in flight
OwnInputShared(cs, c) ==
    LET first == CHOOSE d \in CallIds : cs[d].pc # "idle"
    IN  [op |-> cs[first].op, req |-> cs[first].req, env |-> cs[first].env]

\* what the invocation c reads: the arguments and environment it was
\* called with
OwnInput(cs, c) == [op |-> cs[c].op, req |-> cs[c].req, env |-> cs[c].env]

\* the handler the input names, run on the input
RunHandler(input) ==
    IF input.op = "predict" THEN { PredictHandler(input.req, input.env) }
    ELSE LET pp == IF input.req.hasBody THEN input.req.body.predicted_prices
                   ELSE NotArr("undef")
         IN  { OptimizeHandler(input.req, sortedPrices, Draw(input.env.seed, 0)) :
                   sortedPrices \in SortOutcomes(pp.items) }

ConcInit ==
    /\ calls = [c \in CallIds |-> IdleCall]
    /\ op = "idle" /\ req = NoRequest /\ env = [tz |-> "UTC", seed |-> 0]
    /\ res = NoResponse
    /\ AtRest(ui) /\ AtRest(net)

\* the server calls a handler while others may be in flight
CallArrives ==
    /\ \E c \in CallIds, input \in ConcInputs :
         /\ calls[c].pc = "idle"
         /\ calls' = [calls EXCEPT ![c] =
                          [ pc |-> "called", op |-> input.op, req |-> input.req,
                            env |-> input.env, res |-> NoResponse ]]
    /\ UNCHANGED <<apiVars, ui, net>>

\* an invocation runs its handler body and sends its response
CallRuns ==
    /\ \E c \in CallIds :
         /\ calls[c].pc = "called"
         /\ \E response \in RunHandler(OwnInput(calls, c)) :
              calls' = [calls EXCEPT ![c].pc = "responded", ![c].res = response]
    /\ UNCHANGED <<apiVars, ui, net>>

\* an invocation is over; its locals are dropped
CallReturns ==
    /\ \E c \in CallIds :
         /\ calls[c].pc = "responded"
         /\ calls' = [calls EXCEPT ![c] = IdleCall]
    /\ UNCHANGED <<apiVars, ui, net>>

ConcNext == CallArrives \/ CallRuns \/ CallReturns

ConcSpec == ConcInit /\ [][ConcNext]_vars

(***************************************************************************)
(* Dashboard: pages/index.js.  ui is the state of the component, net the   *)
(* fetches whose continuation has not run yet, in the order they were      *)
(* issued.  currentPrice and priceTrend have no setter call and are left   *)
(* out.  So is activeTab: it only chooses the panel that is rendered, the  *)
(* tab buttons are never disabled, so the controls of every panel can be   *)
(* reached from every state.                                               *)
(***************************************************************************)
\* null in a result slot; null in error
NoData == [kind |-> "null"]

NoError == [k |-> "null", s |-> ""]

\* the useState(...) initial values
InitialUi ==
    [ databaseStatus         |-> NoData,
      historicalData         |-> NoData,
      predictionResults      |-> NoData,
      optimizationResults    |-> NoData,
      availableDates         |-> << >>,
      selectedDate           |-> "",
      selectedPredictionDate |-> "",
      loading                |-> FALSE,
      error                  |-> NoError,
      operationLogs          |-> << >> ]

\* tracked requests started in one exploration
MaxRequests == 3

\* fetch(url, init): a promise, pending until the response or the failure
\* arrives
Fetch(operation, arg) ==
    [op |-> operation, arg |-> arg, state |-> "pending", data |-> NoData, message |-> ""]

NoArg == [date |-> ""]

\* the requests that set loading
Tracked(f) == f.op \in {"status", "historical-prices", "predict", "optimize"}

\* setOperationLogs(prev => [newLog, ...prev].slice(0, 5)), the log reduced
\* to its action text
AddLog(logs, action) ==
    LET all == << action >> \o logs
    IN  SubSeq(all, 1, IF Len(all) < 5 THEN Len(all) ELSE 5)

\* setLoading(true); setError(null); addLog(action)
StartTracked(u, action) ==
    [u EXCEPT !.loading = TRUE, !.error = NoError,
              !.operationLogs = AddLog(@, action)]

FetchDatabaseStatus(u, n) ==
    [ ui  |-> StartTracked(u, "status"),
      net |-> Append(n, Fetch("status", NoArg)) ]

FetchHistoricalData(u, n, date) ==
    [ ui  |-> StartTracked(u, "historical: " \o date),
      net |-> Append(n, Fetch("historical-prices", [date |-> date])) ]

RunPrediction(u, n) ==
    IF u.selectedPredictionDate = "" THEN [ui |-> u, net |-> n]
    ELSE [ ui  |-> StartTracked(u, "predict: " \o u.selectedPredictionDate),
           net |-> Append(n, Fetch("predict",
                       [date |-> u.selectedPredictionDate, model |-> Str("ensemble")])) ]

\* predictionResults?.predictions
HasPredictions(results) == results # NoData /\ "predictions" \in DOMAIN results

\* the prices sent with the first prediction left out
PricesOfTail(results) ==
    [i \in 1..(Len(results.predictions) - 1) |-> results.predictions[i + 1].predicted_price]

\* predictionResults.predictions.map(p => p.predicted_price)
PricesOf(results) ==
    [i \in 1..Len(results.predictions) |-> results.predictions[i].predicted_price]

RunOptimization(u, n) ==
    IF ~HasPredictions(u.predictionResults) THEN [ui |-> u, net |-> n]
    ELSE [ ui  |-> StartTracked(u, "optimize"),
           net |-> Append(n, Fetch("optimize",
                       [ predicted_prices |-> PricesOf(u.predictionResults),
                         max_capacity     |-> Int2Num(1000) ])) ]

\* useEffect(() => { if (selectedDate) fetchHistoricalData(selectedDate) },
\* [selectedDate]) after a render in which selectedDate was `before`
SelectedDateEffect(before, u, n) ==
    IF u.selectedDate # before /\ u.selectedDate # ""
    THEN FetchHistoricalData(u, n, u.selectedDate)
    ELSE [ui |-> u, net |-> n]

\* the options of a date select the exploration picks from: the empty
\* option and the last two dates
Options(dates) ==
    {""} \cup { dates[i] : i \in { j \in 1..Len(dates) : j >= Len(dates) - 1 } }

\* the server the dashboard talks to
DashZone == "UTC"

DashSeeds == {0, NumSeeds - 1}

\* the deployment answers without running the handler
Unavailable == [status |-> 503, headers |-> [acao |-> ""], body |-> [kind |-> "error"]]

\* the responses the server may give to a fetch
ServerAnswers(f) ==
    { Unavailable } \cup
    CASE f.op = "available-dates" ->
           { AvailableDatesHandler([method |-> "GET"], DashZone) }
      [] f.op = "status" ->
           { StatusHandler([method |-> "GET"]) }
      [] f.op = "historical-prices" ->
           { HistoricalHandler([method |-> "GET", query |-> [date |-> f.arg.date]],
                               [tz |-> DashZone, seed |-> 0]) }
      [] f.op = "predict" ->
           { PredictHandler([method |-> "POST", hasBody |-> TRUE, body |-> f.arg],
                            [tz |-> DashZone, seed |-> seed]) : seed \in DashSeeds }
      [] f.op = "optimize" ->
           { OptimizeHandler(
                 [ method |-> "POST", hasBody |-> TRUE,
                   body |-> [ predicted_prices |-> Arr(f.arg.predicted_prices),
                              max_capacity |-> f.arg.max_capacity,
                              min_capacity |-> Undefined, risk_level |-> NoStr ] ],
                 sortedPrices, Draw(0, 0)) :
               sortedPrices \in SortOutcomes(f.arg.predicted_prices) }

\* response.ok
Ok(response) == response.status >= 200 /\ response.status <= 299

\* the ways the awaited fetch and response.json() may end
Outcomes(f) ==
    { IF Ok(response)
      THEN [f EXCEPT !.state = "fulfilled", !.data = response.body]
      ELSE [f EXCEPT !.state = "rejected",
                     !.message = "HTTP " \o ToString(response.status)] :
        response \in ServerAnswers(f) }
    \cup { [f EXCEPT !.state = "rejected", !.message = "Failed to fetch"] }

\* the fetches the dashboard can issue with the dates it explores, and the
\* ways each may end, worked out once
KnownFetches ==
    LET dates    == Options(AvailableDatesHandler([method |-> "GET"], DashZone).body.dates)
                    \ {""}
        predicts == { Fetch("predict", [date |-> date, model |-> Str("ensemble")]) :
                        date \in dates }
        results  == { response.body :
                        response \in { answer \in UNION { ServerAnswers(f) : f \in predicts } :
                                          Ok(answer) } }
    IN  { Fetch("available-dates", NoArg), Fetch("status", NoArg) }
        \cup { Fetch("historical-prices", [date |-> date]) : date \in dates }
        \cup predicts
        \cup { Fetch("optimize", [ predicted_prices |-> PricesOf(result),
                                   max_capacity     |-> Int2Num(1000) ]) :
                 result \in results }

KnownOutcomes == [f \in KnownFetches |-> Outcomes(f)]

OutcomesOf(f) == IF f \in KnownFetches THEN KnownOutcomes[f] ELSE Outcomes(f)

\* the state slot a request stores its result in
ResultOf(operation) ==
    CASE operation = "status"            -> "databaseStatus"
      [] operation = "historical-prices" -> "historicalData"
      [] operation = "predict"           -> "predictionResults"
      [] operation = "optimize"          -> "optimizationResults"

\* try { ... set<Result>(data) } finally { setLoading(false) }
OnFulfilled(u, f) == [u EXCEPT ![ResultOf(f.op)] = f.data, !.loading = FALSE]

\* the failure path dropping the stored result
OnRejectedClearing(u, f) ==
    [u EXCEPT ![ResultOf(f.op)] = NoData, !.error = Str(f.message), !.loading = FALSE]

\* catch (err) { setError(err.message) } finally { setLoading(false) }
OnRejected(u, f) == [u EXCEPT !.error = Str(f.message), !.loading = FALSE]

\* the sequence without its i-th element
Remove(n, i) == SubSeq(n, 1, i - 1) \o SubSeq(n, i + 1, Len(n))

\* room for one more tracked request in the exploration
CanStart == Len(ui.operationLogs) < MaxRequests

\* after mount: the first effect has called fetchAvailableDates()
DashInit ==
    /\ ui = InitialUi
    /\ net = << Fetch("available-dates", NoArg) >>
    /\ op = "idle" /\ req = NoRequest /\ env = [tz |-> "UTC", seed |-> 0]
    /\ res = NoResponse
    /\ AtRest(calls)

ClickDatabaseStatus ==
    /\ ~ui.loading /\ CanStart
    /\ LET next == FetchDatabaseStatus(ui, net)
       IN  ui' = next.ui /\ net' = next.net
    /\ UNCHANGED <<apiVars, calls>>

\* onChange of the historical date select, and the effect that follows
SelectDate ==
    /\ ~ui.loading /\ CanStart
    /\ \E date \in Options(ui.availableDates) \ {ui.selectedDate} :
         LET next == SelectedDateEffect(ui.selectedDate,
                                        [ui EXCEPT !.selectedDate = date], net)
         IN  ui' = next.ui /\ net' = next.net
    /\ UNCHANGED <<apiVars, calls>>

SelectPredictionDate ==
    /\ ~ui.loading
    /\ \E date \in Options(ui.availableDates) \ {ui.selectedPredictionDate} :
         ui' = [ui EXCEPT !.selectedPredictionDate = date]
    /\ UNCHANGED <<apiVars, calls, net>>

ClickPrediction ==
    /\ ~ui.loading /\ ui.selectedPredictionDate # ""
    /\ CanStart
    /\ LET next == RunPrediction(ui, net)
       IN  ui' = next.ui /\ net' = next.net
    /\ UNCHANGED <<apiVars, calls>>

ClickOptimization ==
    /\ ~ui.loading /\ ui.predictionResults # NoData
    /\ CanStart
    /\ LET next == RunOptimization(ui, net)
       IN  ui' = next.ui /\ net' = next.net
    /\ UNCHANGED <<apiVars, calls>>

\* a pending fetch gets its response, or fails
Settle ==
    /\ \E i \in 1..Len(net) :
         /\ net[i].state = "pending"
         /\ \E outcome \in OutcomesOf(net[i]) : net' = [net EXCEPT ![i] = outcome]
    /\ UNCHANGED <<apiVars, calls, ui>>

\* the rest of a tracked request function runs after its await
ResumeTracked ==
    /\ \E i \in 1..Len(net) :
         /\ Tracked(net[i]) /\ net[i].state # "pending"
         /\ ui' = IF net[i].state = "fulfilled" THEN OnFulfilled(ui, net[i])
                  ELSE OnRejected(ui, net[i])
         /\ net' = Remove(net, i)
    /\ UNCHANGED <<apiVars, calls>>

\* the rest of fetchAvailableDates, and the effect on selectedDate
ResumeAvailableDates ==
    /\ \E i \in 1..Len(net) :
         /\ net[i].op = "available-dates" /\ net[i].state # "pending"
         /\ IF net[i].state = "fulfilled"
            THEN LET dates == net[i].data.dates
                     last  == dates[Len(dates)]
                     set   == IF Len(dates) > 0
                              THEN [ui EXCEPT !.availableDates = dates,
                                              !.selectedDate = last,
                                              !.selectedPredictionDate = last]
                              ELSE [ui EXCEPT !.availableDates = dates]
                     next  == SelectedDateEffect(ui.selectedDate, set, Remove(net, i))
                 IN  CanStart /\ ui' = next.ui /\ net' = next.net
            ELSE ui' = ui /\ net' = Remove(net, i)
    /\ UNCHANGED <<apiVars, calls>>

DashNext ==
    \/ ClickDatabaseStatus
    \/ SelectDate
    \/ SelectPredictionDate
    \/ ClickPrediction
    \/ ClickOptimization
    \/ Settle
    \/ ResumeTracked
    \/ ResumeAvailableDates

DashSpec == DashInit /\ [][DashNext]_vars

(***************************************************************************)
(* What the claims speak about                                             *)
(***************************************************************************)
\* the optimize handler has answered a POST that carried a body
OptimizePosted == op = "optimize" /\ res # NoResponse /\ req.method = "POST"

\* the optimize handler has answered with bids and a summary
OptimizeSucceeded == op = "optimize" /\ res # NoResponse /\ res.body.kind = "success"

\* the elements of the request's predicted_prices array
Items == req.body.predicted_prices.items

\* the request's max_capacity and risk_level after the defaults
MaxCapacityOf(r) == Default(r.body.max_capacity, Int2Num(1000))

RiskLevelOf(r) == Default(r.body.risk_level, Str("medium"))

AllNumeric(items) == \A j \in 1..Len(items) : IsNum(items[j])

\* the validation error response of a handler
IsInvalidInput(r) == r.status = 400 /\ r.body.kind = "error"

\* the predict handler has answered a POST
PredictPosted == op = "predict" /\ res # NoResponse /\ req.method = "POST"

\* the predict handler has answered with predictions
PredictSucceeded == op = "predict" /\ res # NoResponse /\ res.body.kind = "success"

(***************************************************************************)
(* C1. For every optimize call whose predicted_prices is an array, with    *)
(* any numeric max_capacity and any risk_level, every returned bid has     *)
(* 0 <= bid_quantity <= max_capacity.                                      *)
(* Fails: Math.round(max_capacity * ratio) is computed from max_capacity   *)
(* unchecked, so 0.6 gives quantity 1 and -10 gives negative quantities.   *)
(***************************************************************************)
C1_BidQuantityWithinCapacity ==
    (OptimizeSucceeded /\ IsNum(MaxCapacityOf(req))) =>
        \A j \in 1..Len(res.body.optimized_bids) :
            LET q == res.body.optimized_bids[j].bid_quantity
            IN  /\ IsNum(q)
                /\ RatLE(Int2Num(0), q)
                /\ RatLE(q, MaxCapacityOf(req))

(***************************************************************************)
(* C2. An optimize call with an empty predicted_prices array is answered   *)
(* with the validation error, never with a success response, never with a  *)
(* raw runtime error.                                                      *)
(* Fails: [] passes the validation, the mean is 0 / 0 = NaN and the        *)
(* response is a 200 whose prices and profits are null.                    *)
(***************************************************************************)
C2_EmptyPricesRejected ==
    (OptimizePosted /\ req.hasBody /\ req.body.predicted_prices.k = "arr"
        /\ Len(Items) = 0)
    => IsInvalidInput(res)

(***************************************************************************)
(* C3. With predicted_prices, max_capacity and min_capacity fixed, the     *)
(* bid_price of every slot under risk_level "high" is >= the bid_price of  *)
(* the same slot under "low", for every numeric price the handler accepts, *)
(* zero and negative prices included.                                      *)
(* Fails: a negative price times 1.1 is below the same price times 0.9.    *)
(***************************************************************************)
C3_HighRiskBidsAtLeastLowRisk ==
    (OptimizeSucceeded /\ RiskLevelOf(req) = Str("high") /\ Len(Items) > 0
        /\ AllNumeric(Items))
    => LET lowReq == [req EXCEPT !.body.risk_level = Str("low")]
           low    == OptimizeHandler(lowReq, CHOOSE sp \in SortOutcomes(Items) : TRUE,
                                     Draw(env.seed, 0))
       IN  \A j \in 1..Slots :
              LET hi == res.body.optimized_bids[j].bid_price
                  lo == low.body.optimized_bids[j].bid_price
              IN  IsNum(hi) /\ IsNum(lo) /\ RatLE(lo, hi)

(***************************************************************************)
(* C4. forecast answers with the validation error whenever date is absent  *)
(* or does not parse to a calendar date; no predictions are returned and   *)
(* no runtime error leaves the handler.                                    *)
(* Fails: only !date is checked; an unparsable string reaches              *)
(* toISOString(), which throws RangeError.                                 *)
(***************************************************************************)
C4_UnparsableDateRejected ==
    (PredictPosted
        /\ \/ ~req.hasBody
           \/ DateMissing(req.body.date)
           \/ ~ParseDate(req.body.date, env.tz).valid)
    => IsInvalidInput(res)

(***************************************************************************)
(* C5. For any valid date forecast returns exactly 96 predictions, in      *)
(* chronological order, slot i carrying the time of day i div 4 hours and  *)
(* (i mod 4) * 15 minutes, consecutive slots 15 minutes apart from 00:00.  *)
(* Fails with C6: the times of day are set in the server's local time and  *)
(* written in UTC, and on a day the clocks go forward two wall-clock hours *)
(* give the same instants.                                                 *)
(***************************************************************************)
\* minutes from 00:00 of the requested date to a written timestamp
StampMinutes(ts) ==
    ts.day * 1440 + (ts.hh[1] * 10 + ts.hh[2]) * 60 + ts.mm[1] * 10 + ts.mm[2]

C5_SlotsQuarterHourly ==
    PredictSucceeded =>
        LET ps == res.body.predictions
        IN  /\ Len(ps) = 96
            /\ \A j \in 1..Len(ps) :
                  /\ ps[j].timestamp.hh = PadStart2((j - 1) \div 4)
                  /\ ps[j].timestamp.mm = PadStart2(((j - 1) % 4) * 15)
            /\ \A j \in 1..(Len(ps) - 1) :
                  StampMinutes(ps[j + 1].timestamp) = StampMinutes(ps[j].timestamp) + 15

(***************************************************************************)
(* C6. Every timestamp of a forecast falls on the requested calendar date: *)
(* the first is the date at 00:00:00 and the last the date at 23:45:00,    *)
(* whatever the server's time zone.                                        *)
(* Fails: new Date("2025-06-30") is UTC midnight, setHours() sets local    *)
(* time and toISOString() writes UTC.                                      *)
(***************************************************************************)
C6_TimestampsOnRequestedDate ==
    PredictSucceeded =>
        LET ps == res.body.predictions
        IN  /\ ps[1].timestamp = [day |-> 0, hh |-> <<0, 0>>, mm |-> <<0, 0>>]
            /\ ps[Len(ps)].timestamp = [day |-> 0, hh |-> <<2, 3>>, mm |-> <<4, 5>>]
            /\ \A j \in 1..Len(ps) : ps[j].timestamp.day = 0

(***************************************************************************)
(* C7. In every slot of every forecast, after the rounding of each field,  *)
(* lower_bound <= predicted_price <= upper_bound and the confidence lies   *)
(* in [0.85, 0.95].                                                        *)
(***************************************************************************)
C7_BoundsAndConfidence ==
    PredictSucceeded =>
        \A j \in 1..Len(res.body.predictions) :
            LET p == res.body.predictions[j]
            IN  /\ IsNum(p.lower_bound) /\ IsNum(p.predicted_price)
                /\ IsNum(p.upper_bound) /\ IsNum(p.confidence)
                /\ RatLE(p.lower_bound, p.predicted_price)
                /\ RatLE(p.predicted_price, p.upper_bound)
                /\ RatLE(Rat(85, 100), p.confidence)
                /\ RatLE(p.confidence, Rat(95, 100))

\* a forecast in which a confidence is rounded up to the bound 0.95, another
\* sits on the bound 0.85, and the bounds are strictly apart from the price
C7_Witness ==
    /\ PredictSucceeded
    /\ \E j \in 1..Slots : res.body.predictions[j].confidence = Rat(95, 100)
    /\ \E j \in 1..Slots : res.body.predictions[j].confidence = Rat(85, 100)
    /\ \E j \in 1..Slots :
          LET p == res.body.predictions[j]
          IN  RatLT(p.lower_bound, p.predicted_price)
              /\ RatLT(p.predicted_price, p.upper_bound)

(***************************************************************************)
(* C8. For an optimize call with a 96-element numeric predicted_prices,    *)
(* optimized_bids has exactly 96 entries, summary.total_bids is 96 and     *)
(* summary.total_capacity is exactly the sum of their bid_quantity.        *)
(***************************************************************************)
\* the sum of the integer quantities written in bids[lo..hi]
RECURSIVE QuantitySum(_, _, _)
QuantitySum(bids, lo, hi) ==
    IF lo > hi THEN 0
    ELSE IF lo = hi THEN bids[lo].bid_quantity.n
    ELSE LET mid == (lo + hi) \div 2
         IN  QuantitySum(bids, lo, mid) + QuantitySum(bids, mid + 1, hi)

C8_TotalCapacityIsSum ==
    (OptimizeSucceeded /\ Len(Items) = 96 /\ AllNumeric(Items))
    => LET bids == res.body.optimized_bids
       IN  /\ Len(bids) = 96
           /\ res.body.summary.total_bids = 96
           /\ \A j \in 1..Len(bids) : IsNum(bids[j].bid_quantity) /\ bids[j].bid_quantity.d = 1
           /\ res.body.summary.total_capacity = Int2Num(QuantitySum(bids, 1, Len(bids)))

\* the default capacity 1000 on a 96-element series: 24 slots of 300,
\* 8 of 800, 12 of 900 and 52 of 500
C8_Witness ==
    /\ OptimizeSucceeded /\ Len(Items) = 96 /\ AllNumeric(Items)
    /\ req.body.max_capacity = Undefined
    /\ res.body.summary.total_capacity = Int2Num(50400)
    /\ res.body.optimized_bids[1].bid_quantity = Int2Num(300)

(***************************************************************************)
(* C9. optimize answers with the validation error whenever                 *)
(* predicted_prices is missing, is not an array, or is an array holding a  *)
(* non-numeric element (string, null, object); no bids are returned then.  *)
(* Fails: the elements are never inspected; ["abc"] is answered with a     *)
(* 200 and 96 bids.                                                        *)
(***************************************************************************)
C9_NonNumericPricesRejected ==
    (OptimizePosted
        /\ \/ ~req.hasBody
           \/ req.body.predicted_prices.k # "arr"
           \/ ~AllNumeric(Items))
    => IsInvalidInput(res)

(***************************************************************************)
(* C10. For every slot i whose predicted_prices[i] is a number, 0          *)
(* included, the entry's predicted_price is predicted_prices[i] and its    *)
(* bid_price and expected_profit are derived from that value.              *)
(* Fails: predicted_prices[i] || avgPrice replaces a price of 0 by the     *)
(* mean of the series.                                                     *)
(***************************************************************************)
C10_EntryUsesOwnPrice ==
    OptimizeSucceeded =>
        \A j \in 1..Slots :
            (j <= Len(Items) /\ IsNum(Items[j])) =>
                LET e     == res.body.optimized_bids[j]
                    hour  == HourOf(j - 1)
                    price == BidPrice(Items[j], hour, RiskFactor(RiskLevelOf(req)))
                    cap   == Capacity(MaxCapacityOf(req), hour)
                IN  /\ e.predicted_price = Items[j]
                    /\ e.bid_price = Json(price)
                    /\ e.expected_profit =
                           Json(ExpectedProfit(cap, price, Items[j], WinProbability(hour)))

(***************************************************************************)
(* C11. When predicted_prices holds n numbers, 1 <= n < 96, the response   *)
(* still has 96 bids; every slot i >= n uses the arithmetic mean of the n  *)
(* supplied entries as its predicted_price and every slot i < n uses its   *)
(* own entry.                                                              *)
(* Fails with C10: a supplied price of 0 is replaced by the mean, so for   *)
(* [0, 500] slot 0 carries 250.                                            *)
(***************************************************************************)
\* the exact sum of the numbers items[lo..hi]
RECURSIVE ItemSum(_, _, _)
ItemSum(items, lo, hi) ==
    IF lo > hi THEN Int2Num(0)
    ELSE IF lo = hi THEN items[lo]
    ELSE LET mid == (lo + hi) \div 2
         IN  RatAdd(ItemSum(items, lo, mid), ItemSum(items, mid + 1, hi))

\* the arithmetic mean of a non-empty sequence of numbers
MeanOf(items) == RatMul(ItemSum(items, 1, Len(items)), Rat(1, Len(items)))

C11_ShortSeriesFallsBackToMean ==
    (OptimizeSucceeded /\ Len(Items) >= 1 /\ Len(Items) < Slots /\ AllNumeric(Items))
    => LET bids == res.body.optimized_bids
       IN  /\ Len(bids) = 96
           /\ \A j \in 1..Len(bids) :
                 bids[j].predicted_price =
                     IF j <= Len(Items) THEN Items[j] ELSE MeanOf(Items)

(***************************************************************************)
(* C12. The risk factor applied to every bid price is 0.9 for risk_level   *)
(* "low", 1.0 for "medium", 1.1 for "high" and exactly 1.0 for every other *)
(* value: an unrecognized string, the name of an inherited object property *)
(* included, or a value that is no string.                                 *)
(* Fails: riskFactors["constructor"] is a function, which is truthy, so it *)
(* is the factor and every bid price is NaN, written null; the array       *)
(* ["low"] is looked up under the key "low" and gets 0.9.                  *)
(***************************************************************************)
\* the factor the mapping low / medium / high / anything else names
NamedRiskFactor(level) ==
    IF level = Str("low") THEN Rat(9, 10)
    ELSE IF level = Str("high") THEN Rat(11, 10)
    ELSE Int2Num(1)

\* the request carries a non-empty series of numbers and a numeric capacity
ValidSeries ==
    /\ OptimizeSucceeded
    /\ Len(Items) >= 1
    /\ AllNumeric(Items)
    /\ IsNum(MaxCapacityOf(req))

C12_RiskFactorApplied ==
    ValidSeries =>
        \A j \in 1..Slots :
            LET e == res.body.optimized_bids[j]
            IN  e.bid_price = BidPrice(e.predicted_price, HourOf(j - 1),
                                       NamedRiskFactor(RiskLevelOf(req)))

(***************************************************************************)
(* C13. The risk_level tag in the summary of every optimize response is    *)
(* one of "low", "medium", "high", and it names the risk level whose       *)
(* factor was applied to the bid prices.                                   *)
(* Fails: the summary carries the request's risk_level as received, so     *)
(* "extreme" comes back as the tag although the factor applied is 1.0,     *)
(* the factor of "medium".                                                 *)
(***************************************************************************)
C13_RiskTagIsAppliedLevel ==
    OptimizeSucceeded =>
        LET tag == res.body.summary.risk_level
        IN  /\ tag \in {Str("low"), Str("medium"), Str("high")}
            /\ ValidSeries =>
                  \A j \in 1..Slots :
                      LET e == res.body.optimized_bids[j]
                      IN  e.bid_price = BidPrice(e.predicted_price, HourOf(j - 1),
                                                 RiskLookup(tag))

(***************************************************************************)
(* C14. For every slot i and every numeric max_capacity, bid_quantity is   *)
(* max_capacity * capacity_ratio rounded to the nearest integer, where     *)
(* capacity_ratio is 0.8 in the hours 7-8, 0.9 in the hours 18-20, 0.3 in  *)
(* the hours 0-5 and 0.5 in every other hour, each hour of the day lying   *)
(* in exactly one segment; with max_capacity 1000 the twelve slots         *)
(* 18:00-20:45 have bid_quantity 900.                                      *)
(***************************************************************************)
\* the segments of the day: morning peak, evening peak, night valley, rest
DaySegments ==
    << [hours |-> 7..8,   capacity_ratio |-> Rat(8, 10), price_ratio |-> Rat(110, 100)],
       [hours |-> 18..20, capacity_ratio |-> Rat(9, 10), price_ratio |-> Rat(115, 100)],
       [hours |-> 0..5,   capacity_ratio |-> Rat(3, 10), price_ratio |-> Rat(85, 100)],
       [hours |-> (6..6) \cup (9..17) \cup (21..23),
                          capacity_ratio |-> Rat(5, 10), price_ratio |-> Rat(100, 100)] >>

\* the segment of an hour of the day
SegmentOf(hour) ==
    DaySegments[CHOOSE s \in 1..Len(DaySegments) : hour \in DaySegments[s].hours]

\* q is the integer nearest to the number x, a half going up
IsRoundOf(q, x) ==
    /\ IsNum(q) /\ q.d = 1
    /\ (2 * q.n - 1) * x.d <= 2 * x.n
    /\ 2 * x.n < (2 * q.n + 1) * x.d

C14_QuantityIsRoundedShare ==
    /\ \A hour \in 0..23 :
          Cardinality({s \in 1..Len(DaySegments) : hour \in DaySegments[s].hours}) = 1
    /\ (OptimizeSucceeded /\ IsNum(MaxCapacityOf(req))) =>
          LET bids == res.body.optimized_bids
          IN  /\ \A j \in 1..Slots :
                    IsRoundOf(bids[j].bid_quantity,
                              RatMul(MaxCapacityOf(req),
                                     SegmentOf((j - 1) \div 4).capacity_ratio))
              /\ MaxCapacityOf(req) = Int2Num(1000) =>
                    \A j \in 73..84 : bids[j].bid_quantity = Int2Num(900)

\* the default capacity 1000: 900 from 18:00 to 20:45, 500 at 17:45 and at
\* 21:00, 800 at 07:00, 300 at 05:45
C14_Witness ==
    /\ OptimizeSucceeded /\ MaxCapacityOf(req) = Int2Num(1000)
    /\ res.body.optimized_bids[73].bid_quantity = Int2Num(900)
    /\ res.body.optimized_bids[84].bid_quantity = Int2Num(900)
    /\ res.body.optimized_bids[72].bid_quantity = Int2Num(500)
    /\ res.body.optimized_bids[85].bid_quantity = Int2Num(500)
    /\ res.body.optimized_bids[29].bid_quantity = Int2Num(800)
    /\ res.body.optimized_bids[24].bid_quantity = Int2Num(300)

\* a capacity whose shares are no integers: 0.6 gives 0.18 -> 0 at night and
\* 0.54 -> 1 in the evening peak
C14_WitnessFraction ==
    /\ OptimizeSucceeded /\ MaxCapacityOf(req) = Rat(3, 5)
    /\ res.body.optimized_bids[1].bid_quantity = Int2Num(0)
    /\ res.body.optimized_bids[73].bid_quantity = Int2Num(1)

(***************************************************************************)
(* C15. In every optimize response the win_probability of every entry is   *)
(* 0.95 - (price_ratio - 1) * 0.5 of the slot's segment, held inside       *)
(* [0.1, 0.95]; it is the same whatever predicted_prices, max_capacity and *)
(* risk_level are.                                                         *)
(***************************************************************************)
\* x held inside [lo, hi]
Clamp(x, lo, hi) == IF RatLT(x, lo) THEN lo ELSE IF RatLT(hi, x) THEN hi ELSE x

\* the win probability of a segment with the given price ratio
SegmentWinProbability(price_ratio) ==
    Clamp(RatAdd(Rat(95, 100),
                 RatNeg(RatMul(RatAdd(price_ratio, Int2Num(-1)), Rat(1, 2)))),
          Rat(1, 10), Rat(95, 100))

C15_WinProbabilityOfSegment ==
    OptimizeSucceeded =>
        \A j \in 1..Slots :
            LET w == res.body.optimized_bids[j].win_probability
            IN  /\ w = SegmentWinProbability(SegmentOf((j - 1) \div 4).price_ratio)
                /\ RatLE(Rat(1, 10), w)
                /\ RatLE(w, Rat(95, 100))

\* a response to a request with its own capacity and risk level: 0.95 at
\* night (1.025 before the upper bound), 0.9 in the morning peak, 0.875 in
\* the evening peak, 0.95 otherwise
C15_Witness ==
    /\ OptimizeSucceeded
    /\ RiskLevelOf(req) = Str("high") /\ MaxCapacityOf(req) = Int2Num(3)
    /\ res.body.optimized_bids[1].win_probability = Rat(95, 100)
    /\ res.body.optimized_bids[29].win_probability = Rat(9, 10)
    /\ res.body.optimized_bids[73].win_probability = Rat(875, 1000)
    /\ res.body.optimized_bids[96].win_probability = Rat(95, 100)

(***************************************************************************)
(* C16. In every slot bid_price is predicted_price * price_ratio *         *)
(* risk_factor rounded to 2 decimals, where price_ratio is 1.10 in the     *)
(* hours 7-8, 1.15 in the hours 18-20, 0.85 in the hours 0-5 and 1.00      *)
(* otherwise, and risk_factor is the factor the risk level names.          *)
(* Fails with C12: for risk_level "constructor" the factor used is a       *)
(* function and every bid_price is null.                                   *)
(***************************************************************************)
\* p is the number x rounded to 2 decimals
IsRoundedTo2(p, x) ==
    IsNum(p) /\ IsRoundOf(RatMul(p, Int2Num(100)), RatMul(x, Int2Num(100)))

C16_BidPriceFormula ==
    OptimizeSucceeded =>
        \A j \in 1..Slots :
            LET e == res.body.optimized_bids[j]
            IN  IsNum(e.predicted_price) =>
                  IsRoundedTo2(e.bid_price,
                               RatMul(RatMul(e.predicted_price,
                                             SegmentOf((j - 1) \div 4).price_ratio),
                                      NamedRiskFactor(RiskLevelOf(req))))

(***************************************************************************)
(* C17. In every slot expected_profit is                                   *)
(* bid_quantity * (bid_price - predicted_price * 0.7) * win_probability    *)
(* rounded to the nearest integer, computed from the bid_quantity,         *)
(* bid_price, predicted_price and win_probability of that same entry; an   *)
(* entry in which one of these is no number has no expected_profit (null). *)
(***************************************************************************)
\* the profit of an entry before rounding
EntryProfit(e) ==
    RatMul(RatMul(e.bid_quantity,
                  RatAdd(e.bid_price, RatNeg(RatMul(e.predicted_price, Rat(7, 10))))),
           e.win_probability)

\* the four fields the profit is computed from are numbers
EntryNumeric(e) ==
    /\ IsNum(e.bid_quantity) /\ IsNum(e.bid_price)
    /\ IsNum(e.predicted_price) /\ IsNum(e.win_probability)

C17_ExpectedProfitFormula ==
    OptimizeSucceeded =>
        \A j \in 1..Slots :
            LET e == res.body.optimized_bids[j]
            IN  IF EntryNumeric(e)
                THEN IsRoundOf(e.expected_profit, EntryProfit(e))
                ELSE e.expected_profit = Null

\* a response with a profit that was rounded, a loss and a gain
C17_Witness ==
    /\ OptimizeSucceeded
    /\ \A j \in 1..Slots : EntryNumeric(res.body.optimized_bids[j])
    /\ \E j \in 1..Slots : EntryProfit(res.body.optimized_bids[j]).d # 1
    /\ \E j \in 1..Slots : res.body.optimized_bids[j].expected_profit.n < 0
    /\ \E j \in 1..Slots : res.body.optimized_bids[j].expected_profit.n > 0

(***************************************************************************)
(* C18. The summary of every optimize response is the reduction of its 96  *)
(* entries: expected_profit is the sum of the entries' expected_profit,    *)
(* average_win_probability the mean of their win_probability rounded to 3  *)
(* decimals, average_bid_price the mean of their bid_price rounded to 2    *)
(* decimals; a value whose entries are not all numbers is null.            *)
(* As first stated, with the two averages being the means themselves, it   *)
(* fails: the mean win probability 0.93645833... is returned as 0.936.     *)
(***************************************************************************)
\* the exact sum of a numeric field over bids[lo..hi]
RECURSIVE FieldSum(_, _, _, _)
FieldSum(bids, field, lo, hi) ==
    IF lo = hi THEN bids[lo][field]
    ELSE LET mid == (lo + hi) \div 2
         IN  RatAdd(FieldSum(bids, field, lo, mid), FieldSum(bids, field, mid + 1, hi))

FieldMean(bids, field) == RatMul(FieldSum(bids, field, 1, Len(bids)), Rat(1, Len(bids)))

FieldNumeric(bids, field) == \A j \in 1..Len(bids) : IsNum(bids[j][field])

\* p is the number x rounded to 3 decimals
IsRoundedTo3(p, x) ==
    IsNum(p) /\ IsRoundOf(RatMul(p, Int2Num(1000)), RatMul(x, Int2Num(1000)))

\* the statement with the averages not rounded
C18_SummaryIsExactReduction ==
    (OptimizeSucceeded /\ \A j \in 1..Slots : EntryNumeric(res.body.optimized_bids[j]))
    => LET bids == res.body.optimized_bids
           sm   == res.body.summary
       IN  /\ sm.expected_profit = FieldSum(bids, "expected_profit", 1, Len(bids))
           /\ sm.average_win_probability = FieldMean(bids, "win_probability")
           /\ sm.average_bid_price = FieldMean(bids, "bid_price")

C18_SummaryIsRoundedReduction ==
    OptimizeSucceeded =>
        LET bids == res.body.optimized_bids
            sm   == res.body.summary
        IN  /\ Len(bids) = 96
            /\ IF FieldNumeric(bids, "expected_profit")
               THEN sm.expected_profit = FieldSum(bids, "expected_profit", 1, Len(bids))
               ELSE sm.expected_profit = Null
            /\ IsRoundedTo3(sm.average_win_probability, FieldMean(bids, "win_probability"))
            /\ IF FieldNumeric(bids, "bid_price")
               THEN IsRoundedTo2(sm.average_bid_price, FieldMean(bids, "bid_price"))
               ELSE sm.average_bid_price = Null

\* a response with numeric entries whose mean bid price has more than 2
\* decimals and whose profits do not cancel
C18_Witness ==
    /\ OptimizeSucceeded
    /\ \A j \in 1..Slots : EntryNumeric(res.body.optimized_bids[j])
    /\ res.body.summary.average_win_probability = Rat(936, 1000)
    /\ res.body.summary.average_bid_price # FieldMean(res.body.optimized_bids, "bid_price")
    /\ IsNum(res.body.summary.expected_profit) /\ res.body.summary.expected_profit.n # 0

(***************************************************************************)
(* C19. Aggregation is deterministic: another optimize call with the same  *)
(* predicted_prices, max_capacity, min_capacity and risk_level returns the *)
(* same optimized_bids and the same summary, whatever Math.random()        *)
(* returns for execution_time and however the engine arranges a copy it    *)
(* cannot order.                                                           *)
(***************************************************************************)
\* what Math.random() may return in the other call: its least and its
\* greatest value
OtherDraws == { DrawVals[1], DrawVals[Len(DrawVals)] }

C19_SameRequestSameResult ==
    OptimizeSucceeded =>
        \A sortedPrices \in SortOutcomes(Items) :
            \A draw \in OtherDraws :
                LET again == OptimizeHandler(req, sortedPrices, draw)
                IN  /\ again.body.optimized_bids = res.body.optimized_bids
                    /\ again.body.summary = res.body.summary

\* a response whose execution_time is not the one another call reports
C19_Witness ==
    /\ OptimizeSucceeded
    /\ \E draw \in OtherDraws :
          LET again == OptimizeHandler(req, CHOOSE sp \in SortOutcomes(Items) : TRUE, draw)
          IN  /\ again.body.execution_time # res.body.execution_time
              /\ again.body.summary = res.body.summary

(***************************************************************************)
(* C20. min_capacity never influences the result: a call that differs from *)
(* another only in min_capacity, a min_capacity above max_capacity         *)
(* included, gets the same response, bids and summary; no bid_quantity is  *)
(* raised to min_capacity and no request is rejected because of it.        *)
(***************************************************************************)
\* the request with another min_capacity
WithMinCapacity(r, m) == [r EXCEPT !.body.min_capacity = m]

C20_MinCapacityIgnored ==
    (OptimizePosted /\ req.hasBody) =>
        \A m \in MinCapacities \ {req.body.min_capacity} :
            \A sortedPrices \in SortOutcomes(Items) :
                OptimizeHandler(WithMinCapacity(req, m), sortedPrices, Draw(env.seed, 0))
                    = res

\* a request whose min_capacity 2000 is above its max_capacity 3 and above
\* every quantity of the response
C20_Witness ==
    /\ OptimizeSucceeded
    /\ req.body.min_capacity = Int2Num(2000)
    /\ MaxCapacityOf(req) = Int2Num(3)
    /\ \A j \in 1..Slots :
          LET q == res.body.optimized_bids[j].bid_quantity
          IN  IsNum(q) /\ RatLT(q, req.body.min_capacity)
    /\ res.body.summary.total_capacity = Int2Num(180)

(***************************************************************************)
(* C21. The requested model name never influences the forecast: for the    *)
(* same date and the same random draws, a call with another model value    *)
(* returns the same predictions and statistics; only model_info.name       *)
(* differs, which echoes the requested name, or is "ensemble" when no name *)
(* is given.                                                               *)
(***************************************************************************)
\* the request with another model value
WithModel(r, m) == [r EXCEPT !.body.model = m]

\* the name a request asks for, "ensemble" when it asks for none
RequestedName(m) == IF m.k = "str" /\ m.s # "" THEN m.s ELSE "ensemble"

C21_ModelNameIsMetadata ==
    PredictSucceeded =>
        /\ res.body.model_name = RequestedName(req.body.model)
        /\ \A m \in Models \ {req.body.model} :
              LET other == PredictHandler(WithModel(req, m), env)
              IN  /\ other.status = res.status
                  /\ other.body.predictions = res.body.predictions
                  /\ other.body.statistics = res.body.statistics
                  /\ other.body.model_name = RequestedName(m)

\* a forecast asked of the model "lstm", whose draws differ from slot to slot
C21_Witness ==
    /\ PredictSucceeded
    /\ req.body.model = Str("lstm")
    /\ res.body.model_name = "lstm"
    /\ res.body.predictions[2].predicted_price # res.body.predictions[3].predicted_price

(***************************************************************************)
(* C22. Every forecast price lies inside the base-price band of its slot's *)
(* segment, [550, 650] in the hours 7-8, [600, 750] in the hours 18-20,    *)
(* [250, 300] in the hours 0-5 and [400, 500] in every other hour,         *)
(* whatever Math.random() returns.                                         *)
(***************************************************************************)
\* the base-price band of an hour of the day
SegmentBand(hour) ==
    CASE hour \in 7..8   -> [low |-> Int2Num(550), high |-> Int2Num(650)]
      [] hour \in 18..20 -> [low |-> Int2Num(600), high |-> Int2Num(750)]
      [] hour \in 0..5   -> [low |-> Int2Num(250), high |-> Int2Num(300)]
      [] OTHER           -> [low |-> Int2Num(400), high |-> Int2Num(500)]

C22_PriceInsideSegmentBand ==
    PredictSucceeded =>
        \A j \in 1..Len(res.body.predictions) :
            LET p    == res.body.predictions[j].predicted_price
                band == SegmentBand((j - 1) \div 4)
            IN  IsNum(p) /\ RatLE(band.low, p) /\ RatLE(p, band.high)

\* a forecast drawn with Math.random() at 0.9999 throughout: the prices sit
\* just below the top of what the chain can produce
C22_Witness ==
    /\ PredictSucceeded
    /\ res.body.predictions[1].predicted_price = Rat(30000, 100)
    /\ res.body.predictions[29].predicted_price = Rat(63999, 100)
    /\ res.body.predictions[73].predicted_price = Rat(72999, 100)
    /\ res.body.predictions[96].predicted_price = Rat(49999, 100)

(***************************************************************************)
(* C28. The predict and optimize handlers decide the outcome in a fixed    *)
(* order: an OPTIONS request gets 200 with an empty body; any other method *)
(* than POST gets 405 whatever the body; only then is the body validated,  *)
(* 400 for a missing date or a missing or non-array predicted_prices; and  *)
(* a 200 success response with computed data is produced only when all    *)
(* three checks pass.                                                      *)
(***************************************************************************)
\* one of the two handlers has answered
Answered == op \in {"predict", "optimize"} /\ res # NoResponse

\* the body of the request does not pass the handler's validation
BodyRejected ==
    \/ ~req.hasBody
    \/ op = "predict" /\ req.body.date \in {"undefined", ""}
    \/ op = "optimize" /\ req.body.predicted_prices.k # "arr"

C28_ChecksInFixedOrder ==
    Answered =>
        /\ req.method = "OPTIONS" => res.status = 200 /\ res.body = [kind |-> "empty"]
        /\ req.method \notin {"OPTIONS", "POST"} =>
              res.status = 405 /\ res.body.kind = "error"
        /\ (req.method = "POST" /\ BodyRejected) =>
              res.status = 400 /\ res.body.kind = "error"
        /\ res.body.kind = "success" =>
              res.status = 200 /\ req.method = "POST" /\ ~BodyRejected

\* a GET that carries a valid body and is answered 405
C28_Witness ==
    /\ Answered
    /\ req.method = "GET" /\ req.hasBody /\ ~BodyRejected
    /\ res.status = 405

(***************************************************************************)
(* C30. For every optimize call in which every predicted price is at least *)
(* 0.08, max_capacity is non-negative and risk_level is low, medium, high  *)
(* or absent, the expected_profit of every entry is >= 0 in every segment, *)
(* and so is summary.expected_profit.                                      *)
(* As first stated, for every strictly positive price, it fails: a price   *)
(* of 0.005 gives a bid_price rounded to 0.00, below the cost 0.0035, and  *)
(* an expected_profit of -1.                                               *)
(***************************************************************************)
\* every supplied price is a number of at least low
PricesAtLeast(low) ==
    /\ Len(Items) >= 1
    /\ \A j \in 1..Len(Items) : IsNum(Items[j]) /\ RatLE(low, Items[j])

\* every supplied price is a number above zero
PricesPositive ==
    /\ Len(Items) >= 1
    /\ \A j \in 1..Len(Items) : IsNum(Items[j]) /\ RatLT(Int2Num(0), Items[j])

CapacityNonNegative ==
    IsNum(MaxCapacityOf(req)) /\ RatLE(Int2Num(0), MaxCapacityOf(req))

\* no entry and no summary of the response carries a loss
NoExpectedLoss ==
    /\ \A j \in 1..Slots :
          LET x == res.body.optimized_bids[j].expected_profit
          IN  IsNum(x) /\ RatLE(Int2Num(0), x)
    /\ IsNum(res.body.summary.expected_profit)
    /\ RatLE(Int2Num(0), res.body.summary.expected_profit)

\* the statement for every strictly positive price
C30_NoLossForPositivePrices ==
    (OptimizeSucceeded /\ PricesPositive /\ CapacityNonNegative
        /\ RiskLevelOf(req) \in {Str("low"), Str("medium"), Str("high")})
    => NoExpectedLoss

C30_NoLossFromEightCents ==
    (OptimizeSucceeded /\ PricesAtLeast(Rat(8, 100)) /\ CapacityNonNegative
        /\ RiskLevelOf(req) \in {Str("low"), Str("medium"), Str("high")})
    => NoExpectedLoss

\* a low-risk response to a 96-element series of prices of at least 0.08,
\* with a gain in the night valley, where the multiplier is 0.85 * 0.9
C30_Witness ==
    /\ OptimizeSucceeded /\ PricesAtLeast(Rat(8, 100)) /\ CapacityNonNegative
    /\ Len(Items) = 96
    /\ RiskLevelOf(req) = Str("low")
    /\ res.body.optimized_bids[1].expected_profit.n > 0
    /\ res.body.summary.expected_profit.n > 0

(***************************************************************************)
(* C24. Every response of the API handlers (predict, optimize,             *)
(* available-dates, historical-prices, database status) carries the header *)
(* Access-Control-Allow-Origin: *, the OPTIONS responses, the 405 method   *)
(* errors and the 400 validation errors included.                          *)
(***************************************************************************)
Handlers == {"predict", "optimize", "available-dates", "historical-prices", "status"}

C24_EveryResponseAllowsAnyOrigin ==
    (op \in Handlers /\ res # NoResponse) => res.headers.acao = "*"

\* historical-prices has refused a POST with 405
C24_Witness ==
    /\ op = "historical-prices" /\ res # NoResponse
    /\ req.method = "POST"
    /\ res.status = 405
    /\ res.headers.acao = "*"

(***************************************************************************)
(* C23. Concurrent invocations of the forecast and optimize handlers are   *)
(* independent: under any interleaving of the calls in flight, each call's *)
(* response is the one it would produce if run alone on its own inputs and *)
(* its own random draws.                                                   *)
(***************************************************************************)
\* the response of each input when its handler runs with nothing else in
\* flight
AloneResponse == [input \in ConcInputs |-> CHOOSE r \in RunHandler(input) : TRUE]

C23_ConcurrentCallsIndependent ==
    \A c \in CallIds :
        calls[c].pc = "responded" =>
            calls[c].res =
                AloneResponse[[op |-> calls[c].op, req |-> calls[c].req, env |-> calls[c].env]]

\* three invocations in flight together, a forecast, an optimization and a
\* refused request, all answered before any of them returns
C23_Witness ==
    /\ \A c \in CallIds : calls # << >> /\ calls[c].pc = "responded"
    /\ \E c, d, e \in CallIds :
          /\ calls[c].op = "predict" /\ calls[c].res.status = 200
          /\ calls[d].op = "optimize" /\ calls[d].res.status = 200
          /\ calls[e].res.status = 405

(***************************************************************************)
(* C25. The dashboard triggers the two operations in sequence: an optimize *)
(* request is sent only when a successfully received prediction result is  *)
(* held, the predicted_prices it sends are the 96 predicted_price values   *)
(* of the most recently received prediction result, in slot order; with no *)
(* held prediction runOptimization sends nothing and changes no state.     *)
(***************************************************************************)
\* the optimize fetches among n
OptimizeFetches(n) == { i \in 1..Len(n) : n[i].op = "optimize" }

TrackedInFlight == \E i \in 1..Len(net) : Tracked(net[i])

C26_LoadingIffTrackedInFlight == ui.loading <=> TrackedInFlight

(***************************************************************************)
(* C27. In the dashboard the historicalData shown is the response for the  *)
(* currently selected date: a response for an earlier date selection never *)
(* overwrites the response for a later selection, whatever order the       *)
(* responses arrive in.                                                    *)
(***************************************************************************)
\* the data of the selected date is shown
ShowsSelectedDate ==
    /\ ui.historicalData # NoData
    /\ ui.selectedDate # ""
    /\ ui.historicalData.date = ui.selectedDate

C27_EarlierResponseNeverOverwrites ==
    [][ \A i \in 1..Len(net) :
            ( /\ net[i].op = "historical-prices" /\ net[i].state = "fulfilled"
              /\ net' = Remove(net, i)
              /\ ShowsSelectedDate
              /\ net[i].arg.date # ui.selectedDate ) =>
                ui'.historicalData = ui.historicalData
      ]_vars

(***************************************************************************)
(* C29. When a dashboard request fails (the fetch rejects or the response  *)
(* status is not OK) the result stored for that operation is left          *)
(* unchanged and error is set to the failure message; error is cleared     *)
(* only when a new tracked request starts.                                 *)
(***************************************************************************)
\* the tracked requests awaiting their response
TrackedPending(n) == { i \in 1..Len(n) : Tracked(n[i]) /\ n[i].state = "pending" }

C29_FailureKeepsResultSetsError ==
    [][ /\ \A i \in 1..Len(net) :
               (Tracked(net[i]) /\ net[i].state = "rejected" /\ net' = Remove(net, i)) =>
                   /\ ui'[ResultOf(net[i].op)] = ui[ResultOf(net[i].op)]
                   /\ ui'.error = Str(net[i].message)
                   /\ net[i].message \in {"Failed to fetch", "HTTP 503"}
        /\ (ui.error # NoError /\ ui'.error = NoError) =>
               /\ Cardinality(TrackedPending(net')) > Cardinality(TrackedPending(net))
               /\ ui'.loading
      ]_vars

\* a status request succeeded, the next one failed: the stored status is
\* still there and error holds the message
C29_Witness ==
    /\ ui # << >> /\ net = << >>
    /\ ui.operationLogs = << "status", "status" >>
    /\ ui.databaseStatus = StatusData
    /\ ui.error = Str("HTTP 503")
    /\ ~ui.loading

====
